---- MODULE Spec2Model ----
(***************************************************************************)
(* FAQ recording, ranking and retention of the TN-State-Chatbot FAQ        *)
(* service: storeOrUpdateQuestion (storeQuestion.ts), getTopFAQs           *)
(* (GetFAQS.ts), pruneOld and its startup block (pruneOldQuestions.ts),    *)
(* createIndex (CreateIndex.ts) and start (index.ts), run against the      *)
(* 'user_queries' index of the search backend.                             *)
(*                                                                         *)
(* The backend is modelled by what the calls of the code ask of it:        *)
(*   - a `match` query on the text field `question` hits every searchable  *)
(*     document that shares at least one analysed token with the query;    *)
(*   - a document written by `index` without `refresh` becomes searchable  *)
(*     only at the next refresh of the index; an update by id with         *)
(*     refresh: 'wait_for' returns after such a refresh;                   *)
(*   - a terms aggregation on `question.keyword` buckets the searchable    *)
(*     documents by their raw text and orders buckets by document count.   *)
(* Time is counted in days; day 0 is the day the service starts, documents *)
(* written by earlier runs of the service carry negative days.             *)
(***************************************************************************)
EXTENDS Integers, Sequences, FiniteSets, TLC

\* ------------------------------------------------------------------------
\* Bounds of the model
\* ------------------------------------------------------------------------
MaxCalls == 5      \* calls of storeOrUpdateQuestion started one after another
RaceCalls == 3     \* calls started when calls may overlap
SweepCalls == 1    \* calls started next to the retention sweeps
MaxTicks == 2      \* 24-hour periods that pass in one behaviour
MaxFails == 1      \* backend calls that fail in one behaviour
MaxReqs == 3       \* HTTP requests that arrive in one behaviour
MaxLen == 3        \* characters of a string given to normalizeQuery
MaxWords == 3      \* words of a question given to semanticSimilarity
MaxCount == 3      \* documents of one query text in the interactions index
MaxShort == 1      \* documents of one one-word query text in that index

\* ------------------------------------------------------------------------
\* Program constants
\* ------------------------------------------------------------------------
RETENTION_DAYS == 90
TOP_SIZE == 5

\* ------------------------------------------------------------------------
\* Question texts: a question is named by its string, Chars gives its
\* characters
\* ------------------------------------------------------------------------
Chars ==
  (""          :> << >>) @@
  ("  "        :> <<" "," ">>) @@
  ("Reset pw?" :> <<"R","e","s","e","t"," ","p","w","?">>) @@
  ("reset  PW" :> <<"r","e","s","e","t"," "," ","P","W">>) @@
  ("reset it"  :> <<"r","e","s","e","t"," ","i","t">>) @@
  ("hi"        :> <<"h","i">>) @@
  ("?!"        :> <<"?","!">>) @@
  ("tax"       :> <<"t","a","x">>) @@
  ("dmv"       :> <<"d","m","v">>) @@
  ("jobs"      :> <<"j","o","b","s">>) @@
  ("parks"     :> <<"p","a","r","k","s">>) @@
  ("vote"      :> <<"v","o","t","e">>) @@
  ("fees"      :> <<"f","e","e","s">>) @@
  ("tax dmv jobs" :>
     <<"t","a","x"," ","d","m","v"," ","j","o","b","s">>) @@
  ("tax dmv jobs fees" :>
     <<"t","a","x"," ","d","m","v"," ","j","o","b","s"," ","f","e","e","s">>) @@
  ("tax dmv jobs vote parks" :>
     <<"t","a","x"," ","d","m","v"," ","j","o","b","s"," ","v","o","t","e"," ","p","a","r","k","s">>) @@
  ("How do I reset my password?" :>
     <<"H","o","w"," ","d","o"," ","I"," ","r","e","s","e","t"," ","m","y"," ",
       "p","a","s","s","w","o","r","d","?">>) @@
  ("How can I reset my password" :>
     <<"H","o","w"," ","c","a","n"," ","I"," ","r","e","s","e","t"," ","m","y"," ",
       "p","a","s","s","w","o","r","d">>) @@
  ("What is the weather" :>
     <<"W","h","a","t"," ","i","s"," ","t","h","e"," ","w","e","a","t","h","e","r">>)

Questions == DOMAIN Chars

LowerOf ==
  ("A" :> "a") @@ ("H" :> "h") @@ ("I" :> "i") @@
  ("R" :> "r") @@ ("P" :> "p") @@ ("W" :> "w")

LowerLetters ==
  {"a","b","c","d","e","f","h","i","j","k","m","n","o","p","r","s","t","v",
   "w","x","y"}

IsWordChar(c) == c \in LowerLetters \cup DOMAIN LowerOf \cup {"_"}

IsSpace(c) == c \in {" ", "\t"}

toLowerCase(s) ==
  [i \in 1..Len(s) |-> IF s[i] \in DOMAIN LowerOf THEN LowerOf[s[i]] ELSE s[i]]

\* .replace(/[^\w\s]/g, '')
StripPunct(s) == SelectSeq(s, LAMBDA c : IsWordChar(c) \/ IsSpace(c))

\* .replace(/\s+/g, ' ')
RECURSIVE CollapseSpaces(_)
CollapseSpaces(s) ==
  IF Len(s) = 0 THEN << >>
  ELSE IF IsSpace(s[1])
       THEN IF Len(s) > 1 /\ IsSpace(s[2])
            THEN CollapseSpaces(Tail(s))
            ELSE <<" ">> \o CollapseSpaces(Tail(s))
       ELSE <<s[1]>> \o CollapseSpaces(Tail(s))

\* .trim()
RECURSIVE TrimLeft(_)
TrimLeft(s) ==
  IF Len(s) > 0 /\ IsSpace(s[1]) THEN TrimLeft(Tail(s)) ELSE s

RECURSIVE TrimRight(_)
TrimRight(s) ==
  IF Len(s) > 0 /\ IsSpace(s[Len(s)])
  THEN TrimRight(SubSeq(s, 1, Len(s) - 1))
  ELSE s

Trim(s) == TrimRight(TrimLeft(s))

\* (variant) the trim applied before the two replacements
normalizeQueryTrimFirst(s) == CollapseSpaces(StripPunct(Trim(toLowerCase(s))))

normalizeQuery(s) == Trim(CollapseSpaces(StripPunct(toLowerCase(s))))

\* .split(' '): the pieces between the single spaces, empty pieces included
RECURSIVE SplitOnSpace(_, _)
SplitOnSpace(s, cur) ==
  IF Len(s) = 0 THEN <<cur>>
  ELSE IF s[1] = " "
       THEN <<cur>> \o SplitOnSpace(Tail(s), << >>)
       ELSE SplitOnSpace(Tail(s), Append(cur, s[1]))

\* new Set(normalizeQuery(query).split(' ').filter(w => w.length > 2))
Words(query) ==
  LET pieces == SplitOnSpace(normalizeQuery(query), << >>)
  IN  {pieces[i] : i \in {k \in DOMAIN pieces : Len(pieces[k]) > 2}}

\* a similarity is a fraction num / den, den > 0
Ratio(n, d) == [num |-> n, den |-> d]

AtLeast(x, y) == x.num * y.den >= y.num * x.den

\* (variant) the Jaccard similarity for short questions too
semanticSimilarityJaccard(query1, query2) ==
  LET words1 == Words(query1)
      words2 == Words(query2)
  IN  IF words1 \cup words2 = {} THEN Ratio(0, 1)
      ELSE Ratio(Cardinality(words1 \cap words2), Cardinality(words1 \cup words2))

semanticSimilarity(query1, query2) ==
  LET words1 == Words(query1)
      words2 == Words(query2)
  IN  IF Cardinality(words1) <= 2 \/ Cardinality(words2) <= 2
      THEN IF Cardinality(words1) = Cardinality(words2) /\ words1 \subseteq words2
           THEN Ratio(1, 1)
           ELSE Ratio(0, 1)
      ELSE Ratio(Cardinality(words1 \cap words2), Cardinality(words1 \cup words2))

\* The analysed tokens of a text field: the maximal runs of word characters,
\* lower-cased (mapping `question: { type: 'text' }`)
RECURSIVE TokensFrom(_, _)
TokensFrom(s, cur) ==
  IF Len(s) = 0 THEN (IF Len(cur) > 0 THEN {cur} ELSE {})
  ELSE IF IsWordChar(s[1])
       THEN TokensFrom(Tail(s), Append(cur, s[1]))
       ELSE (IF Len(cur) > 0 THEN {cur} ELSE {}) \cup TokensFrom(Tail(s), << >>)

Tokens(q) == TokensFrom(toLowerCase(Chars[q]), << >>)

Norm(q) == normalizeQuery(Chars[q])

\* query: { match: { question } }: any shared token is a hit
Matches(q, stored) == Tokens(q) \cap Tokens(stored) # {}

\* ------------------------------------------------------------------------
\* State
\* ------------------------------------------------------------------------
VARIABLES
  indexExists,  \* the index 'user_queries' exists
  docs,         \* its documents: [id, question, count, timestamp, vis]
  nextId,       \* next document id the backend hands out
  now,          \* the current day
  calls,        \* storeOrUpdateQuestion calls in flight: [n, pc, question, docId]
  ncalls,       \* calls started so far
  history,      \* the calls that returned, in order:
                \*   [n, question, result, docId, day, during], during = the
                \*   calls still in flight at the return
  nfails,       \* backend calls that failed so far
  boot,         \* start() of index.ts: "exists", "create", "listening", "exited"
  iife,         \* startup block of pruneOldQuestions.ts:
                \*   "check", "pruning", "scheduled", "skipped", "rejected"
  timer,        \* setInterval(pruneOld, MS_PER_DAY) is registered
  sweeps,       \* pruneOld runs in flight: [n, pc, top5, origin]
  nsweeps,      \* pruneOld runs started so far
  sweepLog,     \* the pruneOld runs that returned, in order: [n, origin, result]
  resps,        \* the HTTP responses sent, in order
  pure          \* the arguments and the result of a function applied on its own

vars == <<indexExists, docs, nextId, now, calls, ncalls, history, nfails,
          boot, iife, timer, sweeps, nsweeps, sweepLog, resps, pure>>

\* what the steps of storeOrUpdateQuestion, pruneOld and the startup leave alone
aux == <<resps, pure>>

sweepVars == <<boot, iife, timer, sweeps, nsweeps, sweepLog>>

\* the index, the calls and the process: what a function applied on its own
\* leaves alone
service == <<indexExists, docs, nextId, now, calls, ncalls, history, nfails,
             sweepVars>>

\* The questions a caller sends
RecordTexts == {"Reset pw?", "reset  PW", "reset it", "hi", "?!"}

Doc(id, q, c, t, v) ==
  [id |-> id, question |-> q, count |-> c, timestamp |-> t, vis |-> v]

\* ------------------------------------------------------------------------
\* storeOrUpdateQuestion
\* ------------------------------------------------------------------------
\* OpensearchClient.search({ query: { match: { question } } }): the
\* searchable documents the query hits
SearchHits(q, ds) == {d \in ds : d.vis /\ Matches(q, d.question)}

\* (variant) a script that sets the count instead of adding to it
UpdateScriptReset(d) == [d EXCEPT !.count = 1]

\* (variant) a script that also stamps the document with the current day
UpdateScriptTouch(d) == [d EXCEPT !.count = @ + 1, !.timestamp = now]

\* script 'ctx._source.count += 1'
UpdateScript(d) == [d EXCEPT !.count = @ + 1]

\* body: { question, count: 1, timestamp: new Date().toISOString() }
NewDoc(id, q, t) == Doc(id, q, 1, t, FALSE)

\* a refresh of the index makes every document searchable
Refreshed(ds) == {[d EXCEPT !.vis = TRUE] : d \in ds}

CanFail == nfails < MaxFails

\* (variant) an insert keyed by the normalized question: a second insert of
\* the same question counts on the stored document instead
IndexIntoUpsert(ds, id, q, t) ==
  IF \E d \in ds : Norm(d.question) = Norm(q)
  THEN {IF Norm(d.question) = Norm(q) THEN [d EXCEPT !.count = @ + 1] ELSE d : d \in ds}
  ELSE ds \cup {Doc(id, q, 1, t, FALSE)}

\* OpensearchClient.index: the backend stores the body as a new document
\* under an id of its own
IndexInto(ds, id, q, t) == ds \cup {NewDoc(id, q, t)}

Returned(n, q, result, docId, inflight) ==
  [n |-> n, question |-> q, result |-> result, docId |-> docId, day |-> now,
   during |-> {c.n : c \in inflight}]

\* the call starts and its search runs; hits[0] is the best-scoring hit,
\* here any of the hits
Search(q) ==
  /\ boot = "listening"
  /\ ncalls < MaxCalls
  /\ ncalls' = ncalls + 1
  /\ LET hits == SearchHits(q, docs) IN
       IF hits # {}
       THEN \E d \in hits :
              calls' = calls \cup
                {[n |-> ncalls + 1, pc |-> "update", question |-> q, docId |-> d.id]}
       ELSE calls' = calls \cup
                {[n |-> ncalls + 1, pc |-> "index", question |-> q, docId |-> 0]}
  /\ UNCHANGED <<indexExists, docs, nextId, now, history, nfails, sweepVars>>

\* the search fails: the call rejects
SearchFail(q) ==
  /\ boot = "listening"
  /\ ncalls < MaxCalls
  /\ CanFail
  /\ ncalls' = ncalls + 1
  /\ nfails' = nfails + 1
  /\ history' = Append(history,
        Returned(ncalls + 1, q, "failed", 0, calls))
  /\ UNCHANGED <<indexExists, docs, nextId, now, calls, sweepVars>>

\* (variant) an update written by the client: the count the call saw when it
\* searched, plus one, put back into the document
UpdateReadModifyWrite(c) ==
  /\ c \in calls
  /\ c.pc = "update"
  /\ calls' = calls \ {c}
  /\ IF \E d \in docs : d.id = c.docId
     THEN /\ LET since == {k \in DOMAIN history :
                            /\ history[k].result = "updated"
                            /\ history[k].docId = c.docId
                            /\ c.n \in history[k].during}
             IN  docs' = Refreshed({IF d.id = c.docId
                                    THEN [d EXCEPT !.count = @ - Cardinality(since) + 1]
                                    ELSE d : d \in docs})
          /\ history' = Append(history,
               Returned(c.n, c.question, "updated", c.docId, calls'))
     ELSE /\ docs' = docs
          /\ history' = Append(history,
               Returned(c.n, c.question, "failed", c.docId, calls'))
  /\ UNCHANGED <<indexExists, nextId, now, ncalls, nfails, sweepVars>>

\* OpensearchClient.update({ id: docId, refresh: 'wait_for', script }):
\* a missing document makes the update fail
Update(c) ==
  /\ c \in calls
  /\ c.pc = "update"
  /\ calls' = calls \ {c}
  /\ IF \E d \in docs : d.id = c.docId
     THEN /\ docs' = Refreshed({IF d.id = c.docId THEN UpdateScript(d) ELSE d : d \in docs})
          /\ history' = Append(history,
               Returned(c.n, c.question, "updated", c.docId, calls'))
     ELSE /\ docs' = docs
          /\ history' = Append(history,
               Returned(c.n, c.question, "failed", c.docId, calls'))
  /\ UNCHANGED <<indexExists, nextId, now, ncalls, nfails, sweepVars>>

\* OpensearchClient.index({ body }): no refresh is asked for
Index(c) ==
  /\ c \in calls
  /\ c.pc = "index"
  /\ calls' = calls \ {c}
  /\ docs' = IndexInto(docs, nextId, c.question, now)
  /\ nextId' = nextId + 1
  /\ history' = Append(history,
       Returned(c.n, c.question, "inserted", nextId, calls'))
  /\ UNCHANGED <<indexExists, now, ncalls, nfails, sweepVars>>

\* the update or the insert fails: the call rejects
WriteFail(c) ==
  /\ c \in calls
  /\ CanFail
  /\ calls' = calls \ {c}
  /\ nfails' = nfails + 1
  /\ history' = Append(history,
       Returned(c.n, c.question, "failed", c.docId, calls'))
  /\ UNCHANGED <<indexExists, docs, nextId, now, ncalls, sweepVars>>

\* the periodic refresh of the index
Refresh ==
  /\ \E d \in docs : ~d.vis
  /\ docs' = Refreshed(docs)
  /\ UNCHANGED <<indexExists, nextId, now, calls, ncalls, history, nfails, sweepVars>>

\* ------------------------------------------------------------------------
\* getTopFAQs
\* ------------------------------------------------------------------------
\* the keys of `question.keyword` in ascending order: the backend breaks
\* ties between buckets of equal document count by key
KeyOrder ==
  <<"", "  ", "?!", "How can I reset my password", "How do I reset my password?",
    "Reset pw?", "What is the weather", "dmv", "fees", "hi", "jobs", "parks",
    "reset  PW", "reset it", "tax", "tax dmv jobs", "tax dmv jobs fees",
    "tax dmv jobs vote parks", "vote">>

KeyRank(q) == CHOOSE i \in 1..Len(KeyOrder) : KeyOrder[i] = q

\* doc_count of the bucket of key q
DocCount(q, ds) == Cardinality({d \in ds : d.vis /\ d.question = q})

\* order: { _count: 'desc' }
BucketBefore(a, b, ds) ==
  \/ DocCount(a, ds) > DocCount(b, ds)
  \/ DocCount(a, ds) = DocCount(b, ds) /\ KeyRank(a) <= KeyRank(b)

RECURSIVE TopBuckets(_, _, _)
TopBuckets(keys, n, ds) ==
  IF n = 0 \/ keys = {} THEN << >>
  ELSE LET k == CHOOSE a \in keys : \A b \in keys : BucketBefore(a, b, ds)
       IN <<k>> \o TopBuckets(keys \ {k}, n - 1, ds)

\* (variant) the aggregation asked for one bucket more
getTopFAQsSix(ds) ==
  TopBuckets({d.question : d \in {e \in ds : e.vis}}, TOP_SIZE + 1, ds)

\* terms aggregation, size 5, mapped to the bucket keys
getTopFAQs(ds) ==
  TopBuckets({d.question : d \in {e \in ds : e.vis}}, TOP_SIZE, ds)

Range(f) == {f[i] : i \in DOMAIN f}

Last(h) == h[Len(h)]

\* ------------------------------------------------------------------------
\* pruneOld
\* ------------------------------------------------------------------------
\* (variant) the query without its must_not clause
DeleteQueryNoProtect(ds, top5, today) ==
  {d \in ds : d.vis /\ d.timestamp < today - RETENTION_DAYS}

\* (variant) the query without its range clause
DeleteQueryNoRange(ds, top5, today) ==
  {d \in ds : d.vis /\ d.question \notin Range(top5)}

\* bool: must range timestamp lt now-90d, must_not terms question.keyword top5
DeleteQuery(ds, top5, today) ==
  {d \in ds : /\ d.vis
               /\ d.timestamp < today - RETENTION_DAYS
               /\ d.question \notin Range(top5)}

NewSweep(origin) ==
  [n |-> nsweeps + 1, pc |-> "rank", top5 |-> << >>, origin |-> origin]

\* what the return of pruneOld does to the startup block that awaits it:
\* setInterval(pruneOld, MS_PER_DAY)
AfterPrune(s) ==
  IF s.origin = "startup"
  THEN iife' = "scheduled" /\ timer' = TRUE
  ELSE UNCHANGED <<iife, timer>>

\* const top5 = await getTopFAQs()
Rank(s) ==
  /\ s \in sweeps
  /\ s.pc = "rank"
  /\ boot # "exited"
  /\ sweeps' = (sweeps \ {s}) \cup {[s EXCEPT !.pc = "delete", !.top5 = getTopFAQs(docs)]}
  /\ UNCHANGED <<indexExists, docs, nextId, now, calls, ncalls, history, nfails,
                 boot, iife, timer, nsweeps, sweepLog>>

\* await opensearchClient.deleteByQuery(...), then the log line
Delete(s) ==
  /\ s \in sweeps
  /\ s.pc = "delete"
  /\ boot # "exited"
  /\ docs' = docs \ DeleteQuery(docs, s.top5, now)
  /\ sweeps' = sweeps \ {s}
  /\ sweepLog' = Append(sweepLog, [n |-> s.n, origin |-> s.origin, result |-> "pruned"])
  /\ AfterPrune(s)
  /\ UNCHANGED <<indexExists, nextId, now, calls, ncalls, history, nfails, boot, nsweeps>>

\* (variant) pruneOld without its try/catch: the failure rejects the await of
\* the startup block, or leaves the timer callback as an unhandled rejection
\* that ends the process
PruneNoCatch(s) ==
  /\ sweeps' = sweeps \ {s}
  /\ sweepLog' = Append(sweepLog, [n |-> s.n, origin |-> s.origin, result |-> "failed"])
  /\ IF s.origin = "startup"
     THEN iife' = "rejected" /\ UNCHANGED <<timer, boot>>
     ELSE boot' = "exited" /\ UNCHANGED <<iife, timer>>

\* catch (err) { console.error(...) }: the failure of either call ends the run
PruneCatch(s) ==
  /\ sweeps' = sweeps \ {s}
  /\ sweepLog' = Append(sweepLog, [n |-> s.n, origin |-> s.origin, result |-> "failed"])
  /\ AfterPrune(s)
  /\ UNCHANGED boot

\* the ranking query or the bulk delete fails
SweepFail(s) ==
  /\ s \in sweeps
  /\ boot # "exited"
  /\ CanFail
  /\ nfails' = nfails + 1
  /\ PruneCatch(s)
  /\ UNCHANGED <<indexExists, docs, nextId, now, calls, ncalls, history, nsweeps>>

\* 24 hours pass: the index has long been refreshed, and the interval timer,
\* when registered, calls pruneOld
Tick ==
  /\ now < MaxTicks
  /\ boot # "exited"
  /\ now' = now + 1
  /\ docs' = Refreshed(docs)
  /\ IF timer
     THEN sweeps' = sweeps \cup {NewSweep("tick")} /\ nsweeps' = nsweeps + 1
     ELSE UNCHANGED <<sweeps, nsweeps>>
  /\ UNCHANGED <<indexExists, nextId, calls, ncalls, history, nfails,
                 boot, iife, timer, sweepLog>>

\* ------------------------------------------------------------------------
\* Startup: the block of pruneOldQuestions.ts and start() of index.ts
\* ------------------------------------------------------------------------
\* (variant) the block registers the timer before it awaits the first pruneOld
ExistsCheckTimerFirst ==
  /\ iife = "check"
  /\ boot # "exited"
  /\ IF indexExists
     THEN /\ iife' = "pruning"
          /\ timer' = TRUE
          /\ sweeps' = sweeps \cup {NewSweep("startup")}
          /\ nsweeps' = nsweeps + 1
     ELSE /\ iife' = "skipped"
          /\ UNCHANGED <<sweeps, nsweeps, timer>>
  /\ UNCHANGED <<indexExists, docs, nextId, now, calls, ncalls, history, nfails,
                 boot, sweepLog>>

\* const exists = await opensearchClient.indices.exists(...); if (exists.body)
ExistsCheck ==
  /\ iife = "check"
  /\ boot # "exited"
  /\ IF indexExists
     THEN /\ iife' = "pruning"
          /\ sweeps' = sweeps \cup {NewSweep("startup")}
          /\ nsweeps' = nsweeps + 1
     ELSE /\ iife' = "skipped"
          /\ UNCHANGED <<sweeps, nsweeps>>
  /\ UNCHANGED <<indexExists, docs, nextId, now, calls, ncalls, history, nfails,
                 boot, timer, sweepLog>>

\* the existence check of the block fails: nothing catches it
ExistsCheckFail ==
  /\ iife = "check"
  /\ boot # "exited"
  /\ CanFail
  /\ nfails' = nfails + 1
  /\ iife' = "rejected"
  /\ UNCHANGED <<indexExists, docs, nextId, now, calls, ncalls, history,
                 boot, timer, sweeps, nsweeps, sweepLog>>

\* createIndex: const exists = await opensearchClient.indices.exists(...)
CreateCheck ==
  /\ boot = "exists"
  /\ boot' = IF indexExists THEN "listening" ELSE "create"
  /\ UNCHANGED <<indexExists, docs, nextId, now, calls, ncalls, history, nfails,
                 iife, timer, sweeps, nsweeps, sweepLog>>

\* createIndex: await opensearchClient.indices.create(...); server.listen
createIndex ==
  /\ boot = "create"
  /\ indexExists' = TRUE
  /\ boot' = "listening"
  /\ UNCHANGED <<docs, nextId, now, calls, ncalls, history, nfails,
                 iife, timer, sweeps, nsweeps, sweepLog>>

\* start: catch (err) { process.exit(1) }
StartFail ==
  /\ boot \in {"exists", "create"}
  /\ CanFail
  /\ nfails' = nfails + 1
  /\ boot' = "exited"
  /\ UNCHANGED <<indexExists, docs, nextId, now, calls, ncalls, history,
                 iife, timer, sweeps, nsweeps, sweepLog>>

\* ------------------------------------------------------------------------
\* Initial states and specifications
\* ------------------------------------------------------------------------
\* An index left by earlier runs: seven questions, three of them first
\* recorded 100 days ago and one 89 days ago
OldStore ==
  { Doc(1, "dmv",   4, -100, TRUE),
    Doc(2, "fees",  1, -10,  TRUE),
    Doc(3, "hi",    2, -10,  TRUE),
    Doc(4, "jobs",  1, -10,  TRUE),
    Doc(5, "parks", 1, -100, TRUE),
    Doc(6, "tax",   9, -100, TRUE),
    Doc(7, "vote",  1, -89,  TRUE) }

\* the same index after two first recordings of "vote" raced
RacedStore == OldStore \cup { Doc(8, "vote", 1, -89, TRUE) }

InitStores == { {}, OldStore, RacedStore }

MaxId(ds) == IF ds = {} THEN 0 ELSE CHOOSE m \in {d.id : d \in ds} : \A d \in ds : d.id <= m

\* the process starts
Init ==
  /\ indexExists \in BOOLEAN
  /\ docs \in (IF indexExists THEN InitStores ELSE { {} })
  /\ nextId = MaxId(docs) + 1
  /\ now = 0
  /\ calls = {}
  /\ ncalls = 0
  /\ history = << >>
  /\ nfails = 0
  /\ boot = "exists"
  /\ iife = "check"
  /\ timer = FALSE
  /\ sweeps = {}
  /\ nsweeps = 0
  /\ sweepLog = << >>
  /\ resps = << >>
  /\ pure = << >>

\* the service after its first start on a backend without the index:
\* createIndex has created it empty, the startup block has skipped
Started(ds) ==
  /\ indexExists = TRUE
  /\ docs = ds
  /\ nextId = MaxId(ds) + 1
  /\ now = 0
  /\ calls = {}
  /\ ncalls = 0
  /\ history = << >>
  /\ nfails = 0
  /\ boot = "listening"
  /\ iife = "skipped"
  /\ timer = FALSE
  /\ sweeps = {}
  /\ nsweeps = 0
  /\ sweepLog = << >>
  /\ resps = << >>
  /\ pure = << >>

\* ---- recordings one after another, from the empty index ----
InitSeq == Started({})

NextSeq ==
  \/ UNCHANGED aux /\ \E q \in RecordTexts : calls = {} /\ Search(q)
  \/ UNCHANGED aux /\ \E c \in calls : Update(c)
  \/ UNCHANGED aux /\ \E c \in calls : Index(c)
  \/ UNCHANGED aux /\ Refresh

SpecSeq == InitSeq /\ [][NextSeq]_vars

\* ---- recordings that may overlap ----
\* an index holding one question, recorded twice ten days ago
SmallStore == { Doc(1, "Reset pw?", 2, -10, TRUE) }

InitRec == Started({}) \/ Started(SmallStore)

NextRec ==
  \/ UNCHANGED aux /\ \E q \in RecordTexts : ncalls < RaceCalls /\ Search(q)
  \/ UNCHANGED aux /\ \E q \in RecordTexts : ncalls < RaceCalls /\ SearchFail(q)
  \/ UNCHANGED aux /\ \E c \in calls : Update(c)
  \/ UNCHANGED aux /\ \E c \in calls : Index(c)
  \/ UNCHANGED aux /\ \E c \in calls : WriteFail(c)
  \/ UNCHANGED aux /\ Refresh

SpecRec == InitRec /\ [][NextRec]_vars

\* ---- the whole service: startup, recordings, ticks and sweeps ----
SweepTexts == {"tax", "hi"}

Next ==
  \/ UNCHANGED aux /\ \E q \in SweepTexts : ncalls < SweepCalls /\ Search(q)
  \/ UNCHANGED aux /\ \E q \in SweepTexts : ncalls < SweepCalls /\ SearchFail(q)
  \/ UNCHANGED aux /\ \E c \in calls : Update(c)
  \/ UNCHANGED aux /\ \E c \in calls : Index(c)
  \/ UNCHANGED aux /\ \E c \in calls : WriteFail(c)
  \/ UNCHANGED aux /\ Refresh
  \/ UNCHANGED aux /\ \E s \in sweeps : Rank(s)
  \/ UNCHANGED aux /\ \E s \in sweeps : Delete(s)
  \/ UNCHANGED aux /\ \E s \in sweeps : SweepFail(s)
  \/ UNCHANGED aux /\ Tick
  \/ UNCHANGED aux /\ ExistsCheck
  \/ UNCHANGED aux /\ ExistsCheckFail
  \/ UNCHANGED aux /\ CreateCheck
  \/ UNCHANGED aux /\ createIndex
  \/ UNCHANGED aux /\ StartFail

Spec == Init /\ [][Next]_vars

\* ---- recordings one after another, on an index of five questions ----
\* an index holding five questions, each recorded once ten days ago
FiveStore ==
  { Doc(1, "dmv",   1, -10, TRUE),
    Doc(2, "fees",  1, -10, TRUE),
    Doc(3, "jobs",  1, -10, TRUE),
    Doc(4, "parks", 1, -10, TRUE),
    Doc(5, "tax",   1, -10, TRUE) }

TopTexts == {"vote", "tax", "hi"}

InitTop == Started(FiveStore)

NextTop ==
  \/ UNCHANGED aux /\ \E q \in TopTexts : calls = {} /\ Search(q)
  \/ UNCHANGED aux /\ \E c \in calls : Update(c)
  \/ UNCHANGED aux /\ \E c \in calls : Index(c)
  \/ UNCHANGED aux /\ Refresh

SpecTop == InitTop /\ [][NextTop]_vars

\* ---- recordings next to the daily sweeps of a service long started ----
\* an index in which first recordings have raced: five questions with two
\* records each, stored ten days ago, and one record of "?!" stored 90 days
\* ago
DupStore ==
  { Doc(1,  "dmv",   1, -10, TRUE), Doc(2,  "dmv",   1, -10, TRUE),
    Doc(3,  "fees",  1, -10, TRUE), Doc(4,  "fees",  1, -10, TRUE),
    Doc(5,  "jobs",  1, -10, TRUE), Doc(6,  "jobs",  1, -10, TRUE),
    Doc(7,  "parks", 1, -10, TRUE), Doc(8,  "parks", 1, -10, TRUE),
    Doc(9,  "tax",   1, -10, TRUE), Doc(10, "tax",   1, -10, TRUE),
    Doc(11, "?!",    1, -90, TRUE) }

\* the service on the day its startup block has pruned and registered the
\* timer
Running(ds) ==
  /\ indexExists = TRUE
  /\ docs = ds
  /\ nextId = MaxId(ds) + 1
  /\ now = 0
  /\ calls = {}
  /\ ncalls = 0
  /\ history = << >>
  /\ nfails = 0
  /\ boot = "listening"
  /\ iife = "scheduled"
  /\ timer = TRUE
  /\ sweeps = {}
  /\ nsweeps = 1
  /\ sweepLog = <<[n |-> 1, origin |-> "startup", result |-> "pruned"]>>
  /\ resps = << >>
  /\ pure = << >>

DailyTexts == {"?!", "tax"}

InitDaily == Running(DupStore)

NextDaily ==
  \/ UNCHANGED aux /\ \E q \in DailyTexts : ncalls < SweepCalls /\ Search(q)
  \/ UNCHANGED aux /\ \E c \in calls : Update(c)
  \/ UNCHANGED aux /\ \E c \in calls : Index(c)
  \/ UNCHANGED aux /\ Refresh
  \/ UNCHANGED aux /\ \E s \in sweeps : Rank(s)
  \/ UNCHANGED aux /\ \E s \in sweeps : Delete(s)
  \/ UNCHANGED aux /\ Tick

SpecDaily == InitDaily /\ [][NextDaily]_vars

\* ------------------------------------------------------------------------
\* The HTTP handlers of index.ts: POST /chat and GET /faq
\* ------------------------------------------------------------------------
\* the `question` of a body that has none
Undefined == "undefined"

\* (variant) the check without its trim
IsInvalidNoTrim(q) == q = Undefined \/ Chars[q] = << >>

\* handleUserInput: !question || question.trim() === ''
IsInvalid(q) == q = Undefined \/ Chars[q] = << >> \/ Trim(Chars[q]) = << >>

\* the value handleUserInput returns for the outcome of its call
handleUserInput(outcome) ==
  IF outcome = "invalid"
  THEN [success |-> FALSE, message |-> "Invalid or empty question."]
  ELSE IF outcome \in {"updated", "inserted"}
       THEN [success |-> TRUE, message |-> "Question stored successfully."]
       ELSE [success |-> FALSE, message |-> "Error storing question."]

\* a response of POST /chat for the request with the given question; call is
\* the number of its storeOrUpdateQuestion call, 0 when it made none
ChatResponse(call, q, status, body) ==
  [route |-> "chat", call |-> call, question |-> q, status |-> status, body |-> body]

\* await handleUserInput(question); res.writeHead(200); res.end({ reply }):
\* the value awaited is not looked at
ChatReply(call, q, handled) ==
  ChatResponse(call, q, 200, [reply |-> "Thank you for your question!"])

\* catch (err): res.writeHead(500); res.end({ error: 'Chat failed' })
ChatFailed(q) == ChatResponse(0, q, 500, [error |-> "Chat failed"])

\* (variant) the reply sent without awaiting handleUserInput
NoAwaitStore(call, q) == Append(resps, ChatReply(call, q, handleUserInput("inserted")))

\* await handleUserInput(question): nothing is sent while the call runs
AwaitStore(call, q) == resps

\* the requests that arrived so far
Requests == Len(resps) + Cardinality(calls)

\* POST /chat, the 'end' callback up to its first backend call: a question
\* that handleUserInput rejects is answered at once, any other starts
\* storeOrUpdateQuestion
ChatEnd(q) ==
  /\ boot = "listening"
  /\ Requests < MaxReqs
  /\ pure' = pure
  /\ IF IsInvalid(q)
     THEN /\ resps' = Append(resps, ChatReply(0, q, handleUserInput("invalid")))
          /\ UNCHANGED service
     ELSE /\ Search(q)
          /\ resps' = AwaitStore(ncalls + 1, q)

\* POST /chat with a body that JSON.parse rejects
ChatMalformed ==
  /\ boot = "listening"
  /\ Requests < MaxReqs
  /\ resps' = Append(resps, ChatFailed(Undefined))
  /\ UNCHANGED <<service, pure>>

\* POST /chat whose search fails: handleUserInput catches, the reply is sent
ChatSearchFail(q) ==
  /\ Requests < MaxReqs
  /\ ~IsInvalid(q)
  /\ SearchFail(q)
  /\ resps' = Append(resps, ChatReply(ncalls + 1, q, handleUserInput("failed")))
  /\ pure' = pure

\* the update of a request returns and its reply is sent
ChatUpdate(c) ==
  /\ Update(c)
  /\ resps' = Append(resps,
       ChatReply(c.n, c.question, handleUserInput(Last(history').result)))
  /\ pure' = pure

\* the insert of a request returns and its reply is sent
ChatIndex(c) ==
  /\ Index(c)
  /\ resps' = Append(resps, ChatReply(c.n, c.question, handleUserInput("inserted")))
  /\ pure' = pure

\* the update or the insert of a request fails: handleUserInput catches
ChatWriteFail(c) ==
  /\ WriteFail(c)
  /\ resps' = Append(resps, ChatReply(c.n, c.question, handleUserInput("failed")))
  /\ pure' = pure

\* fetchFAQs: getTopFAQs and its catch
fetchFAQs(ok, ds) ==
  IF ok
  THEN [success |-> TRUE, faqs |-> getTopFAQs(ds)]
  ELSE [success |-> FALSE, message |-> "Error fetching FAQs."]

\* (variant) the controller hands on what fetchFAQs returned
getFaqsResponseNoThrow(r) ==
  [threw |-> FALSE, faqs |-> IF r.success THEN r.faqs ELSE Undefined]

\* getFaqsResponse: if (!success) throw new Error(...); return faqs
getFaqsResponse(r) ==
  IF ~r.success
  THEN [threw |-> TRUE, error |-> "FAQ service unavailable"]
  ELSE [threw |-> FALSE, faqs |-> r.faqs]

\* the try/catch of GET /faq
FaqResponse(g) ==
  IF g.threw
  THEN [route |-> "faq", status |-> 500, body |-> [error |-> "FAQ service unavailable"]]
  ELSE [route |-> "faq", status |-> 200, body |-> [faqs |-> g.faqs]]

\* GET /faq, the aggregation succeeds
FaqGet ==
  /\ boot = "listening"
  /\ Requests < MaxReqs
  /\ resps' = Append(resps, FaqResponse(getFaqsResponse(fetchFAQs(TRUE, docs))))
  /\ UNCHANGED <<service, pure>>

\* GET /faq, the aggregation fails
FaqGetFail ==
  /\ boot = "listening"
  /\ Requests < MaxReqs
  /\ CanFail
  /\ nfails' = nfails + 1
  /\ resps' = Append(resps, FaqResponse(getFaqsResponse(fetchFAQs(FALSE, docs))))
  /\ UNCHANGED <<indexExists, docs, nextId, now, calls, ncalls, history,
                 sweepVars, pure>>

\* the questions of the chat requests
ChatTexts == {"hi", "Reset pw?", "", "  ", Undefined}

InitChat == Started({}) \/ Started(SmallStore)

NextChat ==
  \/ \E q \in ChatTexts : ChatEnd(q)
  \/ ChatMalformed
  \/ \E q \in ChatTexts : ChatSearchFail(q)
  \/ \E c \in calls : ChatUpdate(c)
  \/ \E c \in calls : ChatIndex(c)
  \/ \E c \in calls : ChatWriteFail(c)
  \/ UNCHANGED aux /\ Refresh
  \/ FaqGet
  \/ FaqGetFail

SpecChat == InitChat /\ [][NextChat]_vars

\* ---- normalizeQuery applied on its own ----
\* the characters of the strings: a letter in both cases, a punctuation mark,
\* the underscore, a space and a tab
NormAlphabet == {"a", "A", "?", "_", " ", "\t"}

StringsUpTo(n) == UNION {[1..k -> NormAlphabet] : k \in 0..n}

\* s with the character c put before position i
InsertAt(s, i, c) == SubSeq(s, 1, i - 1) \o <<c>> \o SubSeq(s, i, Len(s))

SwapCase(c) ==
  IF c \in DOMAIN LowerOf THEN LowerOf[c]
  ELSE IF \E u \in DOMAIN LowerOf : LowerOf[u] = c
       THEN CHOOSE u \in DOMAIN LowerOf : LowerOf[u] = c
       ELSE c

\* s with one letter in the other case, or with one character of the
\* alphabet that is no letter put in somewhere
Variants(s) ==
  {[s EXCEPT ![i] = SwapCase(s[i])] : i \in 1..Len(s)} \cup
  {InsertAt(s, i, c) : i \in 1..(Len(s) + 1), c \in {"?", "_", " ", "\t"}}

Applied(fn, args, res) == [fn |-> fn, args |-> args, res |-> res]

\* normalizeQuery(s) for a string s
Normalize(s) ==
  /\ pure = << >>
  /\ pure' = <<Applied("normalizeQuery", <<s>>, normalizeQuery(s))>>
  /\ UNCHANGED <<service, resps>>

\* normalizeQuery applied to its own result
NormalizeAgain ==
  /\ Len(pure) = 1
  /\ pure' = Append(pure,
       Applied("normalizeQuery", <<pure[1].res>>, normalizeQuery(pure[1].res)))
  /\ UNCHANGED <<service, resps>>

\* normalizeQuery applied to a variant of the first string
NormalizeVariant ==
  /\ Len(pure) = 2
  /\ \E t \in Variants(pure[1].args[1]) :
       pure' = Append(pure, Applied("normalizeQuery", <<t>>, normalizeQuery(t)))
  /\ UNCHANGED <<service, resps>>

InitNorm == Started({})

NextNorm ==
  \/ \E s \in StringsUpTo(MaxLen) : Normalize(s)
  \/ NormalizeAgain
  \/ NormalizeVariant

SpecNorm == InitNorm /\ [][NextNorm]_vars

\* ---- semanticSimilarity applied on its own ----
Vocabulary ==
  { <<"r","e","s","e","t">>, <<"t","a","x">>, <<"d","m","v">>, <<"i","t">> }

\* a question as its words in order
WordSeqs(n) == UNION {[1..k -> Vocabulary] : k \in 0..n}

\* the text of a question: its words with one space between them
RECURSIVE Join(_)
Join(ws) ==
  IF Len(ws) = 0 THEN << >>
  ELSE IF Len(ws) = 1 THEN ws[1]
       ELSE ws[1] \o <<" ">> \o Join(Tail(ws))

\* semanticSimilarity(query1, query2) for two questions
Similarity(ws1, ws2) ==
  /\ pure = << >>
  /\ pure' = <<Applied("semanticSimilarity", <<ws1, ws2>>,
                       semanticSimilarity(Join(ws1), Join(ws2)))>>
  /\ UNCHANGED <<service, resps>>

InitSim == Started({})

NextSim == \E ws1, ws2 \in WordSeqs(MaxWords) : Similarity(ws1, ws2)

SpecSim == InitSim /\ [][NextSim]_vars

\* ---- the grouping of GET /api/common-queries applied on its own ----
\* the query texts of the interactions index
ClusterTexts ==
  {"How do I reset my password?", "How can I reset my password",
   "What is the weather", "Reset pw?"}

\* the buckets of the terms aggregation on query.keyword for the document
\* counts cnt: descending doc_count, ties by ascending key
RECURSIVE Buckets(_, _)
Buckets(cnt, keys) ==
  IF keys = {} THEN << >>
  ELSE LET k == CHOOSE a \in keys : \A b \in keys :
                  \/ cnt[a] > cnt[b]
                  \/ cnt[a] = cnt[b] /\ KeyRank(a) <= KeyRank(b)
       IN  <<[text |-> k, count |-> cnt[k]]>> \o Buckets(cnt, keys \ {k})

\* queryBuckets.map(bucket => ({ text: bucket.key, count: bucket.doc_count }))
QueriesOf(cnt) == Buckets(cnt, {t \in DOMAIN cnt : cnt[t] > 0})

\* (variant) a threshold of 0.8
similarityThresholdHigh == Ratio(4, 5)

\* const similarityThreshold = 0.6
similarityThreshold == Ratio(3, 5)

\* (variant) the indices of a set in descending order
RECURSIVE Descending(_)
Descending(S) ==
  IF S = {} THEN << >>
  ELSE LET m == CHOOSE a \in S : \A b \in S : a >= b
       IN  <<m>> \o Descending(S \ {m})

\* the indices of a set in ascending order
RECURSIVE Ascending(_)
Ascending(S) ==
  IF S = {} THEN << >>
  ELSE LET m == CHOOSE a \in S : \A b \in S : a <= b
       IN  <<m>> \o Ascending(S \ {m})

RECURSIVE SumOf(_)
SumOf(counts) ==
  IF Len(counts) = 0 THEN 0 ELSE counts[1] + SumOf(Tail(counts))

\* (variant) a reduce that keeps the query with the smaller count
RECURSIVE ReduceLeast(_, _)
ReduceLeast(similarQueries, prev) ==
  IF Len(similarQueries) = 0 THEN prev
  ELSE ReduceLeast(Tail(similarQueries),
         IF similarQueries[1].count < prev.count THEN similarQueries[1] ELSE prev)

\* similarQueries.reduce((prev, current) =>
\*   (current.count > prev.count ? current : prev), similarQueries[0])
RECURSIVE Reduce(_, _)
Reduce(similarQueries, prev) ==
  IF Len(similarQueries) = 0 THEN prev
  ELSE Reduce(Tail(similarQueries),
              IF similarQueries[1].count > prev.count THEN similarQueries[1] ELSE prev)

\* (variant) a comparison similarity > similarityThreshold
SimilarToStrict(queries, i, processed) ==
  {j \in (i + 1)..Len(queries) :
     /\ j \notin processed
     /\ ~AtLeast(similarityThreshold,
                 semanticSimilarity(Chars[queries[i].text], Chars[queries[j].text]))}

\* (variant) a comparison similarity >= 0.5
SimilarToLoose(queries, i, processed) ==
  {j \in (i + 1)..Len(queries) :
     /\ j \notin processed
     /\ AtLeast(semanticSimilarity(Chars[queries[i].text], Chars[queries[j].text]),
                Ratio(1, 2))}

\* the group of the query at i: the query and the later queries not yet
\* processed whose similarity with it reaches the threshold
SimilarTo(queries, i, processed) ==
  {j \in (i + 1)..Len(queries) :
     /\ j \notin processed
     /\ AtLeast(semanticSimilarity(Chars[queries[i].text], Chars[queries[j].text]),
                similarityThreshold)}

QueryGroup(queries, members) ==
  LET similarQueries == [k \in DOMAIN members |-> queries[members[k]]]
  IN  [representativeQuery |-> Reduce(similarQueries, similarQueries[1]).text,
       variants |-> [k \in DOMAIN similarQueries |-> similarQueries[k].text],
       totalCount |-> SumOf([k \in DOMAIN similarQueries |-> similarQueries[k].count]),
       variantCounts |-> [k \in DOMAIN similarQueries |->
                            [query |-> similarQueries[k].text,
                             count |-> similarQueries[k].count]]]

\* (variant) the loop without processedIndices.add(j)
RECURSIVE GroupQueriesNoMark(_, _, _)
GroupQueriesNoMark(queries, i, processed) ==
  IF i > Len(queries) THEN << >>
  ELSE LET similar == SimilarTo(queries, i, processed)
       IN  <<QueryGroup(queries, <<i>> \o Ascending(similar))>> \o
           GroupQueriesNoMark(queries, i + 1, processed \cup {i})

\* for (let i = 0; i < queries.length; i++) { ... queryGroups.push(...) }
RECURSIVE GroupQueries(_, _, _)
GroupQueries(queries, i, processed) ==
  IF i > Len(queries) THEN << >>
  ELSE IF i \in processed THEN GroupQueries(queries, i + 1, processed)
       ELSE LET similar == SimilarTo(queries, i, processed)
            IN  <<QueryGroup(queries, <<i>> \o Ascending(similar))>> \o
                GroupQueries(queries, i + 1, processed \cup similar \cup {i})

\* (variant) no sort
SortGroupsUnsorted(groups) == groups

\* .sort((a, b) => b.totalCount - a.totalCount): a stable sort
RECURSIVE SortGroups(_)
SortGroups(groups) ==
  IF Len(groups) = 0 THEN << >>
  ELSE LET m == CHOOSE a \in DOMAIN groups :
                  /\ \A b \in DOMAIN groups : groups[a].totalCount >= groups[b].totalCount
                  /\ \A b \in 1..(a - 1) : groups[b].totalCount # groups[a].totalCount
       IN  <<groups[m]>> \o
           SortGroups(SubSeq(groups, 1, m - 1) \o SubSeq(groups, m + 1, Len(groups)))

\* .slice(0, 5)
Slice(groups, n) == SubSeq(groups, 1, IF Len(groups) < n THEN Len(groups) ELSE n)

topQueryGroups(queries) == Slice(SortGroups(GroupQueries(queries, 1, {})), TOP_SIZE)

\* GET: the aggregation returns its buckets, the handler groups them and
\* answers with the five largest groups
CommonQueries(cnt) ==
  /\ pure = << >>
  /\ pure' = <<Applied("GET", <<QueriesOf(cnt)>>,
                       [status |-> 200, topQueryGroups |-> topQueryGroups(QueriesOf(cnt))])>>
  /\ UNCHANGED <<service, resps>>

\* GET: the search fails or returns no aggregation and the catch answers
CommonQueriesFail ==
  /\ pure = << >>
  /\ pure' = <<Applied("GET", << >>,
                       [status |-> 500, error |-> "Failed to get common queries"])>>
  /\ UNCHANGED <<service, resps>>

InitCluster == Started({})

NextCluster ==
  \/ \E cnt \in [ClusterTexts -> 0..MaxCount] : CommonQueries(cnt)
  \/ CommonQueriesFail

SpecCluster == InitCluster /\ [][NextCluster]_vars

\* ---- the same route on an index of longer and of one-word queries ----
LongTexts == {"tax dmv jobs", "tax dmv jobs fees", "tax dmv jobs vote parks"}

ShortTexts == {"dmv", "fees", "jobs", "hi"}

\* the document counts of the query texts
PoolCounts ==
  {l @@ sh : l \in [LongTexts -> 0..MaxCount], sh \in [ShortTexts -> 0..MaxShort]}

InitGroups == Started({})

NextGroups ==
  \/ \E cnt \in PoolCounts : CommonQueries(cnt)
  \/ CommonQueriesFail

SpecGroups == InitGroups /\ [][NextGroups]_vars

\* ------------------------------------------------------------------------
\* Properties of storeOrUpdateQuestion
\* ------------------------------------------------------------------------
Asked == {history[i].question : i \in DOMAIN history}

\* the step in which call c returns with the given result
Returns(c, result) ==
  /\ c \in calls
  /\ c \notin calls'
  /\ Len(history') = Len(history) + 1
  /\ Last(history').n = c.n
  /\ Last(history').result = result

\* the successful updates of document id so far
UpdatesOf(id) ==
  Cardinality({i \in DOMAIN history :
                 history[i].result = "updated" /\ history[i].docId = id})

\* C1: after N >= 1 calls on one raw text, run one after another from the
\* empty index, the index holds exactly one record of that text and its
\* count is N
C1_SameTextOneRecord ==
  (calls = {} /\ history # << >> /\ Asked = {history[1].question})
    => LET recs == {d \in docs : d.question = history[1].question}
       IN  Cardinality(recs) = 1 /\ \A d \in recs : d.count = Len(history)

\* C2: two overlapping calls for one normalized question that both found no
\* hit both insert: each leaves a record of its own, counted apart from the
\* other (count 1 plus the later updates of that record)
C2_RaceInsertsTwice ==
  \A i, j \in DOMAIN history :
    ( /\ i < j
      /\ history[j].n \in history[i].during
      /\ history[i].result = "inserted"
      /\ history[j].result = "inserted"
      /\ Norm(history[i].question) = Norm(history[j].question) )
    => \E d1, d2 \in docs :
         /\ d1.id = history[i].docId
         /\ d2.id = history[j].docId
         /\ d1.id # d2.id
         /\ d1.count = 1 + UpdatesOf(d1.id)
         /\ d2.count = 1 + UpdatesOf(d2.id)

\* two overlapping first recordings of one question on the empty index have
\* left two records with count 1 each
C2_Witness ==
  /\ Len(history) = 2
  /\ history[2].n \in history[1].during
  /\ history[1].result = "inserted"
  /\ history[2].result = "inserted"
  /\ Norm(history[1].question) = Norm(history[2].question)
  /\ Cardinality(docs) = 2
  /\ \A d \in docs : d.count = 1 /\ Norm(d.question) = Norm(history[1].question)

\* C3: after calls, one after another from the empty index, on raw texts
\* that differ only in case, punctuation and spacing, one record holds the
\* total as its count and the ranking returns it first
C3_VariantsOneRecord ==
  (calls = {} /\ Asked = {"Reset pw?", "reset  PW"})
    => LET recs == {d \in docs : Norm(d.question) = Norm("Reset pw?")}
           top  == getTopFAQs(Refreshed(docs))
       IN  /\ Cardinality(recs) = 1
           /\ \A d \in recs : d.count = Len(history) /\ top[1] = d.question

\* C4: a search for a question whose normalized form no stored record has
\* finds nothing, and the insert that follows adds one record with count 1
\* and the raw text and leaves every stored record as it was
C4_DifferentNormInserts ==
  [][ /\ \A c \in calls' \ calls :
           (\A d \in docs : Norm(d.question) # Norm(c.question)) => c.pc = "index"
      /\ \A c \in calls :
           Returns(c, "inserted") =>
             \E e \in docs' \ docs :
               /\ docs' = docs \cup {e}
               /\ e.question = c.question
               /\ e.count = 1 ]_vars

\* C5 (as claimed): an update that succeeds adds 1 to the count of the record
\* found, sets its timestamp to the time of the recording and creates no record
C5_UpdateTouches ==
  [][ \A c \in calls :
        Returns(c, "updated") =>
          \E d \in docs, e \in docs' :
            /\ d.id = c.docId /\ e.id = c.docId
            /\ e.count = d.count + 1
            /\ e.timestamp = now
            /\ {x.id : x \in docs'} = {x.id : x \in docs} ]_vars

\* C5 (amended): an update that succeeds adds 1 to the count of the record
\* found, leaves its timestamp and every other record's count and timestamp
\* as they were, and creates no record
C5_UpdateKeepsTimestamp ==
  [][ \A c \in calls :
        Returns(c, "updated") =>
          /\ \E d \in docs, e \in docs' :
               /\ d.id = c.docId /\ e.id = c.docId
               /\ e.count = d.count + 1
               /\ e.timestamp = d.timestamp
               /\ e.question = d.question
          /\ {x.id : x \in docs'} = {x.id : x \in docs}
          /\ \A d \in docs : d.id # c.docId =>
               \E e \in docs' : e.id = d.id /\ e.count = d.count
                                  /\ e.timestamp = d.timestamp ]_vars

\* a record first stored ten days ago was found and counted once more, and
\* still carries the day it was stored
C5_Witness ==
  \E i \in DOMAIN history :
    /\ history[i].result = "updated"
    /\ \E d \in docs : /\ d.id = history[i].docId
                        /\ d.timestamp < history[i].day
                        /\ d.count = 2 + UpdatesOf(d.id)

\* ------------------------------------------------------------------------
\* Properties of pruneOld and of the startup
\* ------------------------------------------------------------------------
\* the step in which the run s of pruneOld returns with the given result
SweepReturns(s, result) ==
  /\ s \in sweeps
  /\ s \notin sweeps'
  /\ Len(sweepLog') = Len(sweepLog) + 1
  /\ Last(sweepLog').n = s.n
  /\ Last(sweepLog').result = result

Stale(d, today) == d.timestamp < today - RETENTION_DAYS

\* C6: a bulk delete removes every record older than the 90-day window whose
\* raw text is not in the top-5 the sweep has ranked, and keeps every record
\* that old whose raw text is in it. The age is taken from `timestamp`, the
\* only date a record carries; no record is matched before it is stored, so
\* a record last matched before the window was also stored before it
C6_SweepDeletesStale ==
  [][ \A s \in sweeps :
        SweepReturns(s, "pruned") =>
          \A d \in docs :
            Stale(d, now) => (d \in docs' <=> d.question \in Range(s.top5)) ]_vars

\* a sweep has pruned: a record stored 100 days ago whose text is in the
\* top-5 is still there, the record of "tax", as old and outside it, is gone
C6_Witness ==
  /\ \E i \in DOMAIN sweepLog : sweepLog[i].result = "pruned"
  /\ \E d \in docs : Stale(d, now) /\ d.question \in Range(getTopFAQs(docs))
  /\ \A d \in docs : d.question # "tax"

\* C7 (as claimed): a record that a call matched less than 90 days ago is
\* still stored, whenever it was first stored
C7_RecentMatchSurvives ==
  \A i \in DOMAIN history :
    (history[i].result = "updated" /\ history[i].day > now - RETENTION_DAYS)
      => \E d \in docs : d.id = history[i].docId

\* C7 (amended): a bulk delete removes no record whose timestamp, the day it
\* was stored, lies within the 90-day window
C7_RecentlyStoredSurvives ==
  [][ \A s \in sweeps :
        SweepReturns(s, "pruned") =>
          \A d \in docs : ~Stale(d, now) => d \in docs' ]_vars

\* a sweep has pruned within a day of the start: the record of "vote",
\* stored 89 days before the start and outside the top-5, is still there,
\* while a record matched since the start is gone
C7_Witness ==
  /\ now <= 1
  /\ \E i \in DOMAIN sweepLog : sweepLog[i].result = "pruned"
  /\ \E d \in docs : /\ d.question = "vote"
                      /\ ~Stale(d, now)
                      /\ d.question \notin Range(getTopFAQs(docs))
  /\ \E i \in DOMAIN history :
       /\ history[i].result = "updated"
       /\ \A d \in docs : d.id # history[i].docId

\* C8: once the service listens and the startup block has finished, with no
\* backend call failed, every 24 hours that pass start a sweep
C8_EveryTickSweeps ==
  [][ ( /\ boot = "listening"
        /\ iife \notin {"check", "pruning"}
        /\ nfails = 0
        /\ now' = now + 1 )
      => nsweeps' = nsweeps + 1 ]_vars

\* C9: the startup block starts no sweep when its check finds no index;
\* when it finds the index it starts exactly one, the first sweep of the
\* process, and registers the timer only when that sweep has returned
C9_StartupSweep ==
  LET startup == {s \in sweeps : s.origin = "startup"}
      logged  == {i \in DOMAIN sweepLog : sweepLog[i].origin = "startup"}
  IN  /\ iife \in {"check", "skipped", "rejected"} =>
           nsweeps = 0 /\ ~timer
      /\ iife = "pruning" =>
           /\ nsweeps = 1 /\ ~timer /\ sweepLog = << >>
           /\ \E s \in sweeps : sweeps = {s} /\ s.origin = "startup" /\ s.n = 1
      /\ iife = "scheduled" =>
           /\ timer /\ startup = {} /\ logged = {1}
           /\ sweepLog[1].n = 1

\* the index existed at the start: one sweep has run and returned, the timer
\* is registered and no day has passed
C9_Witness ==
  /\ iife = "scheduled"
  /\ now = 0
  /\ nsweeps = 1
  /\ Len(sweepLog) = 1
  /\ sweepLog[1].origin = "startup"

\* C10: the timer, once registered, stays registered; a run of pruneOld that
\* fails returns like any other (the startup block registers the timer after
\* it), and changes neither the process, the calls in flight, the results
\* of the calls nor the index
C10_SweepFailureContained ==
  [][ /\ timer => timer'
      /\ \A s \in sweeps :
           SweepReturns(s, "failed") =>
             /\ timer'
             /\ sweeps' = sweeps \ {s}
             /\ boot' = boot
             /\ calls' = calls
             /\ history' = history
             /\ docs' = docs ]_vars

\* a sweep has failed and the sweep of a later tick has pruned
C10_Witness ==
  \E i, j \in DOMAIN sweepLog :
    /\ i < j
    /\ sweepLog[i].result = "failed"
    /\ sweepLog[j].result = "pruned"
    /\ sweepLog[j].origin = "tick"

\* ------------------------------------------------------------------------
\* Properties of getTopFAQs
\* ------------------------------------------------------------------------
RECURSIVE SumCounts(_)
SumCounts(ds) ==
  IF ds = {} THEN 0
  ELSE LET d == CHOOSE x \in ds : TRUE IN d.count + SumCounts(ds \ {d})

\* the times question q was recorded: the counts of its records together
Recorded(q) == SumCounts({d \in docs : d.question = q})

StoredQuestions == {d.question : d \in docs}

\* C11: with no call in flight and the index refreshed, the ranking returns
\* min(5, number of stored questions) of the stored questions, and none it
\* leaves out was recorded more often than one it returns
C11_TopByCount ==
  (calls = {} /\ \A d \in docs : d.vis) =>
    LET top == Range(getTopFAQs(docs))
        n   == Cardinality(StoredQuestions)
    IN  /\ top \subseteq StoredQuestions
        /\ Cardinality(top) = (IF n < TOP_SIZE THEN n ELSE TOP_SIZE)
        /\ \A a \in top, b \in StoredQuestions \ top : Recorded(a) >= Recorded(b)

Normalized == {i \in DOMAIN pure : pure[i].fn = "normalizeQuery"}

\* s and t are the same but for the case of their letters
CaseVariant(s, t) ==
  /\ Len(s) = Len(t)
  /\ \A i \in 1..Len(s) : t[i] = s[i] \/ t[i] = SwapCase(s[i])

\* t is s with one more of the characters of marks
PunctVariant(s, t, marks) ==
  \E i \in 1..(Len(s) + 1), c \in marks : t = InsertAt(s, i, c)

\* t is s with one more whitespace character at its start, at its end or
\* next to a whitespace character
SpaceVariant(s, t) ==
  \E i \in 1..(Len(s) + 1), c \in {" ", "\t"} :
    /\ t = InsertAt(s, i, c)
    /\ \/ i = 1
       \/ i = Len(s) + 1
       \/ s[i - 1] \in {" ", "\t"}
       \/ s[i] \in {" ", "\t"}

DiffersOnly(s, t, marks) ==
  \/ CaseVariant(s, t) \/ CaseVariant(t, s)
  \/ PunctVariant(s, t, marks) \/ PunctVariant(t, s, marks)
  \/ SpaceVariant(s, t) \/ SpaceVariant(t, s)

Idempotent ==
  \A i, j \in Normalized :
    pure[j].args = <<pure[i].res>> => pure[j].res = pure[i].res

SameNormalForm(marks) ==
  \A i, j \in Normalized :
    DiffersOnly(pure[i].args[1], pure[j].args[1], marks) => pure[j].res = pure[i].res

\* C15 (as claimed): normalizeQuery applied to its own result returns it
\* unchanged, and two strings that differ only in the case of letters, in
\* punctuation, the underscore included, or in whitespace at the ends or
\* next to whitespace have the same normal form
C15_NormalForm == Idempotent /\ SameNormalForm({"?", "_"})

\* C15 (amended): the same, for the punctuation that is no word character
\* of the pattern, which leaves the underscore out
C15_NormalFormWord ==
  Idempotent /\ SameNormalForm({c \in NormAlphabet : ~IsWordChar(c) /\ ~IsSpace(c)})

\* a string that normalizeQuery changes, its result given to normalizeQuery
\* again, and a variant of the string with a question mark more
C15_Witness ==
  /\ Len(pure) = 3
  /\ pure[1].res # pure[1].args[1]
  /\ pure[1].res # << >>
  /\ pure[2].args = <<pure[1].res>>
  /\ pure[3].args # pure[1].args
  /\ PunctVariant(pure[1].args[1], pure[3].args[1], {"?"})
  /\ \E i \in 1..Len(pure[1].args[1]) : IsSpace(pure[1].args[1][i])

\* ------------------------------------------------------------------------
\* Properties of semanticSimilarity
\* ------------------------------------------------------------------------
Compared == {i \in DOMAIN pure : pure[i].fn = "semanticSimilarity"}

\* the words of a question that are longer than two characters
Kept(ws) == {ws[i] : i \in {k \in DOMAIN ws : Len(ws[k]) > 2}}

\* C14 (as claimed): two questions of two words or fewer each whose
\* normalized texts differ have similarity 0
C14_ShortDifferentZero ==
  \A i \in Compared :
    LET a == pure[i].args[1]
        b == pure[i].args[2]
    IN  (Len(a) <= 2 /\ Len(b) <= 2 /\ normalizeQuery(Join(a)) # normalizeQuery(Join(b)))
          => pure[i].res.num = 0

\* C14 (amended): two questions of two words or fewer each whose sets of
\* words longer than two characters differ have similarity 0, whatever words
\* they share; when these sets are equal the similarity is 1
C14_ShortKeptSets ==
  \A i \in Compared :
    LET a == pure[i].args[1]
        b == pure[i].args[2]
    IN  (Len(a) <= 2 /\ Len(b) <= 2)
          => /\ Kept(a) # Kept(b) => pure[i].res.num = 0
             /\ Kept(a) = Kept(b) => pure[i].res.num = pure[i].res.den

\* two questions of two words or fewer that share one of their long words
\* and not the other
C14_Witness ==
  /\ Len(pure) = 1
  /\ pure[1].fn = "semanticSimilarity"
  /\ Len(pure[1].args[1]) = 2
  /\ Len(pure[1].args[2]) <= 2
  /\ Kept(pure[1].args[1]) \cap Kept(pure[1].args[2]) # {}
  /\ Kept(pure[1].args[1]) \ Kept(pure[1].args[2]) # {}
  /\ pure[1].res.num = 0

\* ------------------------------------------------------------------------
\* Properties of the grouping of GET /api/common-queries
\* ------------------------------------------------------------------------
Grouped == {i \in DOMAIN pure : pure[i].fn = "GET" /\ pure[i].res.status = 200}

\* the count of the query text t among the queries, 0 when it is not there
CountIn(queries, t) ==
  IF \E k \in DOMAIN queries : queries[k].text = t
  THEN queries[CHOOSE k \in DOMAIN queries : queries[k].text = t].count
  ELSE 0

\* the groups that list the text t among their variants
GroupsWith(groups, t) == {g \in DOMAIN groups : t \in Range(groups[g].variants)}

\* C13: with threshold 0.6, "How do I reset my password?" and "How can I
\* reset my password" are the two variants of one group whose totalCount is
\* the sum of their counts, and "What is the weather" is the only variant of
\* a group whose totalCount is its count
C13_PhrasingsClustered ==
  \A i \in Grouped :
    LET queries == pure[i].args[1]
        groups  == pure[i].res.topQueryGroups
        do  == "How do I reset my password?"
        can == "How can I reset my password"
        wea == "What is the weather"
    IN  /\ (CountIn(queries, do) > 0 /\ CountIn(queries, can) > 0) =>
             \E g \in DOMAIN groups :
               /\ GroupsWith(groups, do) = {g}
               /\ GroupsWith(groups, can) = {g}
               /\ Range(groups[g].variants) = {do, can}
               /\ Len(groups[g].variants) = 2
               /\ groups[g].totalCount = CountIn(queries, do) + CountIn(queries, can)
        /\ CountIn(queries, wea) > 0 =>
             \E g \in DOMAIN groups :
               /\ GroupsWith(groups, wea) = {g}
               /\ groups[g].variants = <<wea>>
               /\ groups[g].totalCount = CountIn(queries, wea)

\* the three texts were queried, the two phrasings a different number of
\* times, and "What is the weather" most often
C13_Witness ==
  /\ Len(pure) = 1
  /\ pure[1].fn = "GET"
  /\ pure[1].res.status = 200
  /\ CountIn(pure[1].args[1], "How do I reset my password?") = 1
  /\ CountIn(pure[1].args[1], "How can I reset my password") = 2
  /\ CountIn(pure[1].args[1], "What is the weather") = 3
  /\ Len(pure[1].res.topQueryGroups) = 2
  /\ pure[1].res.topQueryGroups[1].totalCount = 3
  /\ pure[1].res.topQueryGroups[2].totalCount = 3

\* ------------------------------------------------------------------------
\* Properties of POST /chat and GET /faq
\* ------------------------------------------------------------------------
ChatResps == {i \in DOMAIN resps : resps[i].route = "chat"}

\* a question that is missing, empty or made of whitespace only
Blank(q) ==
  q = Undefined \/ \A i \in DOMAIN Chars[q] : Chars[q][i] \in {" ", "\t"}

\* the response is the success reply of POST /chat
Acknowledges(r) == r.status = 200 /\ "reply" \in DOMAIN r.body

\* the step sends one response, of the given route
Sends(route) ==
  /\ Len(resps') = Len(resps) + 1
  /\ SubSeq(resps', 1, Len(resps)) = resps
  /\ Last(resps').route = route

\* C16: every success reply of POST /chat answers a request whose question
\* was not blank and whose storeOrUpdateQuestion call returned with an
\* update or an insert done
C16_AckOnlyWhenStored ==
  \A i \in ChatResps :
    Acknowledges(resps[i]) =>
      /\ ~Blank(resps[i].question)
      /\ \E k \in DOMAIN history :
           /\ history[k].n = resps[i].call
           /\ history[k].result \in {"updated", "inserted"}

\* C17: the step that answers a POST /chat with a blank question changes
\* neither the index, the calls in flight nor the calls made, and no call
\* and no record ever carries a blank question
C17_BlankTouchesNothing ==
  [][ /\ (Sends("chat") /\ Blank(Last(resps').question)) =>
           /\ docs' = docs
           /\ nextId' = nextId
           /\ calls' = calls
           /\ ncalls' = ncalls
           /\ history' = history
           /\ nfails' = nfails
      /\ \A c \in calls' : ~Blank(c.question)
      /\ \A k \in DOMAIN history' : ~Blank(history'[k].question)
      /\ \A d \in docs' : ~Blank(d.question) ]_vars

\* a whitespace-only question and a missing one were answered while the
\* call of another request was in flight, and the index is as it started
C17_Witness ==
  /\ \E i \in ChatResps : resps[i].question = "  "
  /\ \E i \in ChatResps : resps[i].question = Undefined /\ resps[i].status = 200
  /\ calls # {}
  /\ docs = SmallStore

\* C18: a request whose call of storeOrUpdateQuestion is in flight has no
\* response, and every response to a request that made a call comes after
\* the return of that call
C18_ReplyAfterRecord ==
  \A i \in ChatResps :
    resps[i].call # 0 =>
      /\ \A c \in calls : c.n # resps[i].call
      /\ \E k \in DOMAIN history : history[k].n = resps[i].call

\* two requests overlapped: the first has its response after its insert
\* returned, the call of the second is still in flight
C18_Witness ==
  /\ \E i \in ChatResps, k \in DOMAIN history :
       /\ resps[i].call = history[k].n
       /\ history[k].result = "inserted"
       /\ history[k].during # {}
  /\ calls # {}

\* C19: GET /faq answers 200 with the ranking of the index as faqs when
\* the aggregation succeeds, and 500 with the error 'FAQ service
\* unavailable' when it fails; either way the process goes on
C19_FaqResponse ==
  [][ Sends("faq") =>
        /\ boot' = boot
        /\ docs' = docs
        /\ nfails' = nfails =>
             /\ Last(resps').status = 200
             /\ Last(resps').body = [faqs |-> getTopFAQs(docs)]
        /\ nfails' # nfails =>
             /\ Last(resps').status >= 400
             /\ Last(resps').body = [error |-> "FAQ service unavailable"] ]_vars

\* a GET /faq was answered with a ranking that is not empty and another
\* with the error
C19_Witness ==
  /\ \E i \in DOMAIN resps :
       /\ resps[i].route = "faq"
       /\ resps[i].status = 200
       /\ resps[i].body.faqs # << >>
  /\ \E i \in DOMAIN resps : resps[i].route = "faq" /\ resps[i].status = 500

\* ------------------------------------------------------------------------
\* Properties of the count field
\* ------------------------------------------------------------------------
\* C20: every stored record has a count of at least 1, and no step of a
\* recording, of a sweep or of the startup lowers the count of a record
\* that is still stored after it
C20_CountNeverLowered ==
  [][ /\ \A d \in docs : d.count >= 1
      /\ \A e \in docs' : e.count >= 1
      /\ \A d \in docs, e \in docs' : e.id = d.id => e.count >= d.count ]_vars

\* a recording has raised the count of a record stored by an earlier run,
\* a sweep has pruned, and the record is still stored with its raised count
C20_Witness ==
  /\ \E i \in DOMAIN sweepLog : sweepLog[i].result = "pruned"
  /\ \E k \in DOMAIN history :
       /\ history[k].result = "updated"
       /\ \E d \in docs, o \in OldStore :
            /\ d.id = history[k].docId
            /\ o.id = d.id
            /\ d.count = o.count + 1
  /\ Cardinality(docs) < Cardinality(OldStore)

\* ------------------------------------------------------------------------
\* Properties of overlapping calls and sweeps
\* ------------------------------------------------------------------------
\* the count a record had before the first update of this behaviour: 1 when
\* a call of the behaviour inserted it, else its count in the initial index
CountAtFirst(id) ==
  IF \E k \in DOMAIN history : history[k].result = "inserted" /\ history[k].docId = id
  THEN 1
  ELSE (CHOOSE o \in SmallStore : o.id = id).count

\* C21: when two overlapping calls both found one record and both updates
\* succeeded, the record's count has grown by one for every successful
\* update of it, these two included: no increment is lost
C21_NoLostIncrement ==
  \A i, j \in DOMAIN history :
    ( /\ i < j
      /\ history[j].n \in history[i].during
      /\ history[i].result = "updated"
      /\ history[j].result = "updated"
      /\ history[i].docId = history[j].docId )
    => \E d \in docs :
         /\ d.id = history[i].docId
         /\ UpdatesOf(d.id) >= 2
         /\ d.count = CountAtFirst(d.id) + UpdatesOf(d.id)

\* two overlapping calls on the text of the record stored with count 2 both
\* found it and both updated it, no other call did: its count is 4
C21_Witness ==
  /\ Len(history) = 2
  /\ history[2].n \in history[1].during
  /\ \A k \in DOMAIN history :
       /\ history[k].result = "updated"
       /\ history[k].question = "Reset pw?"
       /\ history[k].docId = 1
  /\ \E d \in docs : d.id = 1 /\ d.question = "Reset pw?" /\ d.count = 4

\* C22: a bulk delete removes no record whose raw text is in the ranking of
\* the index as it is when the delete runs
C22_DeleteSparesCurrentTop ==
  [][ \A s \in sweeps :
        SweepReturns(s, "pruned") =>
          \A d \in docs \ docs' : d.question \notin Range(getTopFAQs(docs)) ]_vars

\* C23: a call that has found a record fails at its update only when the
\* backend call itself fails, and when its update has returned the record
\* is stored with a count that includes the update
C23_FoundNeverLost ==
  [][ \A c \in calls :
        c.pc = "update" =>
          /\ Returns(c, "failed") => nfails' = nfails + 1
          /\ Returns(c, "updated") =>
               \E d \in docs, e \in docs' :
                 d.id = c.docId /\ e.id = c.docId /\ e.count = d.count + 1 ]_vars

\* C24: at most one run of pruneOld is in flight
C24_OneSweepAtATime == Cardinality(sweeps) <= 1

\* ------------------------------------------------------------------------
\* Properties of the groups of GET /api/common-queries
\* ------------------------------------------------------------------------
\* the groups of the i-th application before the sort and the cut
queryGroupsOf(i) == GroupQueries(pure[i].args[1], 1, {})

\* the place of the query text t among the queries
PositionOf(queries, t) == CHOOSE k \in DOMAIN queries : queries[k].text = t

\* the similarity of the two query texts reaches the threshold
Similar(a, b) == AtLeast(semanticSimilarity(Chars[a], Chars[b]), similarityThreshold)

\* C25: in every group each variant after the first, the seed, is similar
\* to the seed; no query of a later group is similar to the seed; and every
\* query of the group and of the later groups, the seed apart, comes after
\* the seed among the queries, so the later queries are all the unprocessed
\* ones
C25_GreedyPass ==
  \A i \in Grouped :
    LET queries == pure[i].args[1]
        groups  == queryGroupsOf(i)
    IN  \A g \in DOMAIN groups :
          LET seed == groups[g].variants[1]
          IN  /\ \A k \in 2..Len(groups[g].variants) :
                   Similar(seed, groups[g].variants[k])
              /\ \A h \in (g + 1)..Len(groups) :
                   \A k \in DOMAIN groups[h].variants :
                     ~Similar(seed, groups[h].variants[k])
              /\ \A h \in g..Len(groups) :
                   \A k \in DOMAIN groups[h].variants :
                     groups[h].variants[k] # seed =>
                       PositionOf(queries, groups[h].variants[k]) >
                         PositionOf(queries, seed)

\* the longest text seeds a group of its own although it is similar to a
\* variant of the first group, which an earlier seed has taken
C25_Witness ==
  /\ Len(pure) = 1
  /\ pure[1].fn = "GET"
  /\ pure[1].res.status = 200
  /\ \E g, h \in DOMAIN queryGroupsOf(1) :
       /\ g < h
       /\ queryGroupsOf(1)[g].variants = <<"tax dmv jobs fees", "tax dmv jobs">>
       /\ queryGroupsOf(1)[h].variants = <<"tax dmv jobs vote parks">>
       /\ Similar("tax dmv jobs", "tax dmv jobs vote parks")

\* C26 (as claimed): any two variants of one group are similar
C26_MutualDuplicates ==
  \A i \in Grouped :
    \A g \in DOMAIN queryGroupsOf(i) :
      \A a, b \in Range(queryGroupsOf(i)[g].variants) : a # b => Similar(a, b)

\* C26 (amended): every variant of a group is similar to the first variant
\* of the group, its seed
C26_SimilarToSeed ==
  \A i \in Grouped :
    \A g \in DOMAIN queryGroupsOf(i) :
      \A a \in Range(queryGroupsOf(i)[g].variants) :
        a # queryGroupsOf(i)[g].variants[1] =>
          Similar(queryGroupsOf(i)[g].variants[1], a)

\* a group of three variants, the second and the third not similar to each
\* other
C26_Witness ==
  /\ Len(pure) = 1
  /\ pure[1].fn = "GET"
  /\ pure[1].res.status = 200
  /\ \E g \in DOMAIN queryGroupsOf(1) :
       LET variants == queryGroupsOf(1)[g].variants
       IN  /\ Len(variants) = 3
           /\ Similar(variants[1], variants[2])
           /\ Similar(variants[1], variants[3])
           /\ ~Similar(variants[2], variants[3])

\* C27: before the sort and the cut, every query is a variant of exactly
\* one group, at one place, every variant is a query, and the totalCounts
\* of the groups add up to the counts of the queries
C27_GroupsPartition ==
  \A i \in Grouped :
    LET queries == pure[i].args[1]
        groups  == queryGroupsOf(i)
    IN  /\ \A q \in DOMAIN queries :
             Cardinality({gk \in (DOMAIN groups) \X (DOMAIN queries) :
                            /\ gk[2] \in DOMAIN groups[gk[1]].variants
                            /\ groups[gk[1]].variants[gk[2]] = queries[q].text}) = 1
        /\ \A g \in DOMAIN groups :
             \A k \in DOMAIN groups[g].variants :
               \E q \in DOMAIN queries : queries[q].text = groups[g].variants[k]
        /\ SumOf([g \in DOMAIN groups |-> groups[g].totalCount]) =
             SumOf([q \in DOMAIN queries |-> queries[q].count])

\* six queries fall into four groups
C27_Witness ==
  /\ Len(pure) = 1
  /\ pure[1].fn = "GET"
  /\ pure[1].res.status = 200
  /\ Len(pure[1].args[1]) = 6
  /\ Len(queryGroupsOf(1)) = 4

\* C28: before the sort and the cut, the representativeQuery of every group
\* is one of its variants and no variant has a greater count, and the
\* totalCount is the sum of the counts of the variants
C28_RepresentativeAndTotal ==
  \A i \in Grouped :
    LET queries == pure[i].args[1]
        groups  == queryGroupsOf(i)
    IN  \A g \in DOMAIN groups :
          /\ groups[g].representativeQuery \in Range(groups[g].variants)
          /\ \A k \in DOMAIN groups[g].variants :
               CountIn(queries, groups[g].representativeQuery) >=
                 CountIn(queries, groups[g].variants[k])
          /\ groups[g].totalCount =
               SumOf([k \in DOMAIN groups[g].variants |->
                        CountIn(queries, groups[g].variants[k])])

\* a group of two variants of different counts: the representativeQuery is
\* the one with the greater count
C28_Witness ==
  /\ Len(pure) = 1
  /\ pure[1].fn = "GET"
  /\ pure[1].res.status = 200
  /\ \E g \in DOMAIN queryGroupsOf(1) :
       LET grp == queryGroupsOf(1)[g]
       IN  /\ Len(grp.variants) = 2
           /\ grp.totalCount = 4
           /\ CountIn(pure[1].args[1], grp.representativeQuery) = 3

\* C29: in every group of the response, variants and variantCounts list the
\* same queries with their counts, all that the totalCount adds up, in
\* non-increasing order of count
C29_VariantsByCount ==
  \A i \in Grouped :
    LET queries == pure[i].args[1]
        groups  == pure[i].res.topQueryGroups
    IN  \A g \in DOMAIN groups :
          /\ Len(groups[g].variantCounts) = Len(groups[g].variants)
          /\ \A k \in DOMAIN groups[g].variants :
               groups[g].variantCounts[k] =
                 [query |-> groups[g].variants[k],
                  count |-> CountIn(queries, groups[g].variants[k])]
          /\ \A k \in DOMAIN groups[g].variants :
               k > 1 => groups[g].variantCounts[k - 1].count >=
                          groups[g].variantCounts[k].count
          /\ SumOf([k \in DOMAIN groups[g].variantCounts |->
                      groups[g].variantCounts[k].count]) = groups[g].totalCount

\* the response holds a group of three variants with counts 3, 2 and 1
C29_Witness ==
  /\ Len(pure) = 1
  /\ pure[1].fn = "GET"
  /\ pure[1].res.status = 200
  /\ \E g \in DOMAIN pure[1].res.topQueryGroups :
       LET vc == pure[1].res.topQueryGroups[g].variantCounts
       IN  Len(vc) = 3 /\ vc[1].count = 3 /\ vc[2].count = 2 /\ vc[3].count = 1

\* C30: the response holds at most 5 groups, all of them groups of the
\* pass, in non-increasing order of totalCount, and no group of the pass
\* left out has a greater totalCount than one in the response
C30_TopGroups ==
  \A i \in Grouped :
    LET groups   == pure[i].res.topQueryGroups
        produced == Range(queryGroupsOf(i))
    IN  /\ Len(groups) <= TOP_SIZE
        /\ Range(groups) \subseteq produced
        /\ Len(groups) = (IF Cardinality(produced) < TOP_SIZE
                          THEN Cardinality(produced) ELSE TOP_SIZE)
        /\ \A g \in DOMAIN groups :
             g > 1 => groups[g - 1].totalCount >= groups[g].totalCount
        /\ \A o \in produced \ Range(groups) :
             \A g \in DOMAIN groups : o.totalCount <= groups[g].totalCount

\* the pass has produced six groups of which the response holds five, the
\* first with a greater totalCount than the last
C30_Witness ==
  /\ Len(pure) = 1
  /\ pure[1].fn = "GET"
  /\ pure[1].res.status = 200
  /\ Len(queryGroupsOf(1)) = 6
  /\ Len(pure[1].res.topQueryGroups) = 5
  /\ pure[1].res.topQueryGroups[1].totalCount >
       pure[1].res.topQueryGroups[5].totalCount

====
